---------------------------- MODULE Spec2Model ----------------------------
(***************************************************************************)
(* A model of the chain_traits crate (src/src/lib.rs): the Block and       *)
(* HasUncles accessors, the BlockProvider lookups with their two provided  *)
(* methods (uncles, transactions), and the ByteEncodable conversions.      *)
(*                                                                         *)
(* The crate declares traits.  A method with a body (BlockProvider::uncles,*)
(* BlockProvider::transactions) is translated from that body.  A required  *)
(* method has no body in the crate: its result is whatever the declared    *)
(* type admits, so it is a lookup in the implementor's state (the          *)
(* provider) or a choice over the values of the return type (the codec).   *)
(***************************************************************************)
EXTENDS Integers, Sequences, FiniteSets, TLC

\* ------------------------------------------------------------------ bounds
MaxNumber == 1      \* block numbers are 0..MaxNumber (u64 in the source)
MaxTxs == 2         \* longest transaction list of a block
MaxUncles == 1      \* longest uncle list of a block
MaxBufLen == 2      \* longest byte buffer handed to the codec
MaxEnacts == 3      \* enact calls begun in one run

\* --------------------------------------------------- the associated types
\* Block::Id is opaque (Eq only), Block::Transaction is opaque (Clone only),
\* HasUncles::Uncle is opaque: each is a small set of tokens.
Ids == {"idA", "idB"}
Txs == {"tx1", "tx2"}
UncleVals == {"un1", "un2"}
Numbers == 0..MaxNumber
ByteVals == {0, 255}

SeqsUpTo(S, n) == UNION {[1..k -> S] : k \in 0..n}

\* Option<T>
None == [some |-> FALSE]
Some(v) == [some |-> TRUE, val |-> v]
Option(S) == {None} \cup {Some(v) : v \in S}

\* ------------------------------------------------------------------ Block
\* A value of a type implementing Block + HasUncles is what its accessors
\* return: parent(), number(), id(), transactions(), uncles().
Blocks ==
    [parent : Ids, number : Numbers, id : Ids,
     transactions : SeqsUpTo(Txs, MaxTxs), uncles : SeqsUpTo(UncleVals, MaxUncles)]

\* Clone::clone of one transaction
clone(t) == t

\* A plausible slip in copying a slice: the copy is built back to front.
RECURSIVE to_vec_reversed(_)
to_vec_reversed(s) ==
    IF s = <<>> THEN <<>> ELSE to_vec_reversed(Tail(s)) \o <<clone(Head(s))>>

\* [T]::to_vec: a new vector holding a clone of every element, in order
RECURSIVE to_vec(_)
to_vec(s) ==
    IF s = <<>> THEN <<>> ELSE <<clone(Head(s))>> \o to_vec(Tail(s))

\* ---------------------------------------------------------- BlockProvider
\* self: the implementor's state, the store behind the two required lookups.
block(self, id) == self.blocks[id]

block_id(self, num) == self.canon[num]

\* A plausible slip: an unknown block reported as a block without uncles.
uncles_or_empty(self, id) ==
    LET found == block(self, id)
    IN  IF found.some THEN Some(found.val.uncles) ELSE Some(<<>>)

\* self.block(id).map(|b| b.uncles())
uncles(self, id) ==
    LET found == block(self, id)
    IN  IF found.some THEN Some(found.val.uncles) ELSE None

\* self.block(id).map(|b| b.transactions().to_vec())
transactions(self, id) ==
    LET found == block(self, id)
    IN  IF found.some THEN Some(to_vec(found.val.transactions)) ELSE None

\* The providers a run starts from.  The provided methods read one entry of
\* the store, so one entry ranges over every block or its absence while
\* every other entry is absent or holds a plain block of its own id; the
\* number index is any partial map.
PlainBlock(i) ==
    [parent |-> i, number |-> 0, id |-> i, transactions |-> <<>>, uncles |-> <<>>]

Stores ==
    {[i \in Ids |-> IF i = k THEN e
                    ELSE IF i \in present THEN Some(PlainBlock(i)) ELSE None] :
        k \in Ids, e \in Option(Blocks), present \in SUBSET Ids}

Providers == [blocks : Stores, canon : [Numbers -> Option(Ids)]]

EmptyProvider == [blocks |-> [i \in Ids |-> None], canon |-> [n \in Numbers |-> None]]

\* ---------------------------------------------------------- ByteEncodable
\* Byte buffers (Vec<u8>, &[u8]).
Buffers == SeqsUpTo(ByteVals, MaxBufLen)

\* The blocks the codec is exercised on.
CodecBlocks ==
    {b \in Blocks : b.parent = b.id /\ b.transactions = <<>> /\ b.uncles = <<>>}

\* Into<Vec<u8>> is a required conversion: an implementation is any table
\* from blocks to buffers.
Encoders == [CodecBlocks -> Buffers]

NoEncoder == <<>>

\* From<&[u8]> is a required conversion whose signature is
\* fn from(&[u8]) -> Self: a call that returns, returns a value of the block
\* type, whichever the implementation picks.  The signature has no error
\* value; the only other way out of the call is a panic.
from_returns(buf) == {[kind |-> "block", val |-> b] : b \in CodecBlocks}

from_panics(buf) == [kind |-> "panic"]

\* ------------------------------------------------------------------ state
VARIABLES
    provider,   \* the BlockProvider implementor's state
    encoder,    \* the Into<Vec<u8>> implementation in use
    ret,        \* the last call made and what it returned
    state,      \* the State implementor's contents
    order,      \* the enact calls that have returned, in the order they returned
    pc,         \* per caller: "idle", or "enacting" between enact's entry and return
    held        \* per caller inside enact: its block and the contents it entered with

vars == <<provider, encoder, ret, state, order, pc, held>>

stateVars == <<state, order, pc, held>>

NoCall == [op |-> "none"]

\* Into::into
into(b) == encoder[b]

\* A buffer is well formed when it is the encoding of some block.
WellFormed(buf) == \E b \in CodecBlocks : into(b) = buf

\* ------------------------------------------------------------------ State
\* The threads of the host that call enact on one State value.
Callers == {"c1", "c2"}

\* The blocks handed to enact.
EnactBlocks == {PlainBlock(i) : i \in Ids}

\* enact is a required method: what it does to the contents is the
\* implementor's.  The contents are kept as the sequence of blocks enact
\* has processed, of which any implementation's contents are a function.
EmptyState == <<>>

enact_effect(contents, b) == Append(contents, b)

\* Result<(), Self::Error>
EnactResults == {"Ok", "Err"}

NoHeld == [c \in Callers |-> None]

\* As if enact took &self: a shared borrow excludes no other caller.
enact_shared_receiver(live) == TRUE

\* enact takes &mut self: the call needs the exclusive borrow of the State,
\* which exists only while no other borrow of it is live.
enact_receiver(live) == live = {}

\* The callers whose enact call is in progress: each holds a borrow of state.
Enacting == {c \in Callers : pc[c] = "enacting"}

StateIdle ==
    /\ state = EmptyState
    /\ order = <<>>
    /\ pc = [c \in Callers |-> "idle"]
    /\ held = NoHeld

\* ------------------------------------------------- the provider, exercised
Init ==
    /\ provider \in Providers
    /\ encoder = NoEncoder
    /\ ret = NoCall
    /\ StateIdle

CallBlock(i) ==
    /\ ret' = [op |-> "block", id |-> i, val |-> block(provider, i)]
    /\ UNCHANGED <<provider, encoder, stateVars>>

CallBlockId(n) ==
    /\ ret' = [op |-> "block_id", num |-> n, val |-> block_id(provider, n)]
    /\ UNCHANGED <<provider, encoder, stateVars>>

CallUncles(i) ==
    /\ ret' = [op |-> "uncles", id |-> i, val |-> uncles(provider, i)]
    /\ UNCHANGED <<provider, encoder, stateVars>>

CallTransactions(i) ==
    /\ ret' = [op |-> "transactions", id |-> i, val |-> transactions(provider, i)]
    /\ UNCHANGED <<provider, encoder, stateVars>>

Next ==
    \/ \E i \in Ids : CallBlock(i)
    \/ \E n \in Numbers : CallBlockId(n)
    \/ \E i \in Ids : CallUncles(i)
    \/ \E i \in Ids : CallTransactions(i)

Spec == Init /\ [][Next]_vars

\* ---------------------------------------------------- the codec, exercised
InitCodec ==
    /\ provider = EmptyProvider
    /\ encoder \in Encoders
    /\ ret = NoCall
    /\ StateIdle

CallInto(b) ==
    /\ ret' = [op |-> "into", arg |-> b, val |-> into(b)]
    /\ UNCHANGED <<provider, encoder, stateVars>>

CallFrom(buf) ==
    /\ \E out \in from_returns(buf) : ret' = [op |-> "from", arg |-> buf, out |-> out]
    /\ UNCHANGED <<provider, encoder, stateVars>>

CallFromPanics(buf) ==
    /\ ret' = [op |-> "from", arg |-> buf, out |-> from_panics(buf)]
    /\ UNCHANGED <<provider, encoder, stateVars>>

NextCodec ==
    \/ \E b \in CodecBlocks : CallInto(b)
    \/ \E buf \in Buffers : CallFrom(buf)
    \/ \E buf \in Buffers : CallFromPanics(buf)

SpecCodec == InitCodec /\ [][NextCodec]_vars

\* ---------------------------------------------------- the State, exercised
InitState ==
    /\ provider = EmptyProvider
    /\ encoder = NoEncoder
    /\ ret = NoCall
    /\ StateIdle

\* A caller enters enact(&mut self, block): it reads the contents it works on.
EnactBegin(c, b) ==
    /\ pc[c] = "idle"
    /\ Len(order) + Cardinality(Enacting) < MaxEnacts
    /\ enact_receiver(Enacting)
    /\ pc' = [pc EXCEPT ![c] = "enacting"]
    /\ held' = [held EXCEPT ![c] = Some([block |-> b, entered |-> state])]
    /\ UNCHANGED <<provider, encoder, ret, state, order>>

\* The call returns: the contents are what the call made of those it entered
\* with, and the caller gets Ok or Err.
EnactEnd(c) ==
    /\ pc[c] = "enacting"
    /\ state' = enact_effect(held[c].val.entered, held[c].val.block)
    /\ order' = Append(order, held[c].val.block)
    /\ \E r \in EnactResults :
           ret' = [op |-> "enact", by |-> c, arg |-> held[c].val.block, val |-> r]
    /\ pc' = [pc EXCEPT ![c] = "idle"]
    /\ held' = [held EXCEPT ![c] = None]
    /\ UNCHANGED <<provider, encoder>>

NextState ==
    \/ \E c \in Callers, b \in EnactBlocks : EnactBegin(c, b)
    \/ \E c \in Callers : EnactEnd(c)

SpecState == InitState /\ [][NextState]_vars

\* ----------------------------------------------------------------- claims

\* C4: provider consistency for transactions.  Whatever transactions(i)
\* returns is absent exactly when block(i) is absent, and otherwise holds
\* the block's transactions, each in its place.
C4_TransactionsConsistent ==
    ret.op = "transactions" =>
        LET found == block(provider, ret.id)
        IN  /\ ret.val.some <=> found.some
            /\ found.some =>
                  /\ Len(ret.val.val) = Len(found.val.transactions)
                  /\ \A k \in 1..Len(found.val.transactions) :
                        ret.val.val[k] = found.val.transactions[k]

\* transactions(i) has returned two different transactions of a known block
C4_Witness ==
    /\ ret.op = "transactions"
    /\ ret.val.some
    /\ Len(ret.val.val) = 2
    /\ ret.val.val[1] # ret.val.val[2]

\* C5: provider consistency for uncles.  Whatever uncles(i) returns is
\* absent exactly when block(i) is absent, and otherwise is the block's
\* uncles() sequence.
C5_UnclesConsistent ==
    ret.op = "uncles" =>
        LET found == block(provider, ret.id)
        IN  /\ ret.val.some <=> found.some
            /\ found.some => ret.val.val = found.val.uncles

\* uncles(i) has returned the uncles of a known block that has some
C5_Witness ==
    /\ ret.op = "uncles"
    /\ ret.val.some
    /\ Len(ret.val.val) >= 1

\* C10: fallible decoding.  Decoding a buffer that is the encoding of no
\* block fails with a codec error and yields no block.
C10_MalformedDecodeFails ==
    (ret.op = "from" /\ ~WellFormed(ret.arg)) => ret.out.kind = "error"

\* The contents left by running the calls of seq one after another, each
\* entering with what the one before it left.
RECURSIVE Sequentially(_, _)
Sequentially(contents, seq) ==
    IF seq = <<>> THEN contents
    ELSE Sequentially(enact_effect(contents, Head(seq)), Tail(seq))

Reorderings(seq) ==
    {[k \in 1..Len(seq) |-> seq[p[k]]] :
        p \in {q \in [1..Len(seq) -> 1..Len(seq)] :
                 \A i, j \in 1..Len(seq) : q[i] = q[j] => i = j}}

\* C11: serialized enactment.  At most one enact call on the State is in
\* progress at any time, and the contents are those that some sequential
\* order of the calls that have returned would leave.
C11_EnactSerialized ==
    /\ Cardinality(Enacting) <= 1
    /\ \E seq \in Reorderings(order) : state = Sequentially(EmptyState, seq)

\* both callers have had an enact call return, and one of them is in a
\* further call while the other is free to call
C11_Witness ==
    /\ Len(order) = 2
    /\ ret.op = "enact"
    /\ \E c \in Callers : pc[c] = "enacting" /\ ret.by # c

====
